---- MODULE Spec2Model ----
(***************************************************************************)
(* Model of word_counter.py: the WordCounter ingestion engine.             *)
(*                                                                         *)
(* Durable state: the words table of words.db (store) and the              *)
(* processed_files table of progress.db (tracker).  Volatile state: the    *)
(* position of the running command (pc), the locals of process_directory   *)
(* and process_text_file, and the open sqlite transaction of               *)
(* update_database (txn).  A process termination (Crash) loses the         *)
(* volatile state and keeps the durable state.                             *)
(***************************************************************************)
EXTENDS Integers, Sequences, FiniteSets, TLC

VARIABLES
    content,            \* file -> Counter of extract_words(file text)
    store,              \* words table, committed rows: word -> [count, pos_tag]
    tracker,            \* processed_files table: set of file_path strings
    pc,                 \* position of the running command
    mode,               \* which command runs: "dir", "file" or "none"
    unprocessed_files,  \* process_directory: the list built at line 198
    idx,                \* process_directory: loop index i (1-based)
    file_path,          \* process_text_file: its argument
    directory_path,     \* process_directory: its argument
    report,             \* the last summary line process_directory printed
    txn,                \* update_database: rows as seen inside the open transaction
    word_counts,        \* update_database: items of word_counts not yet iterated
    cmds,               \* number of commands started
    crashes,            \* number of process terminations
    merged,             \* history: file -> number of committed merges of its batch
    mergedRun,          \* history: paths whose batch the current run committed
    failed,             \* history: paths whose processing raised in the current run
    completed,          \* history: roots on which a process_directory run returned
    crashAt,            \* history: pc at the last process termination
    text,               \* tokenizer input
    tokens,             \* tokenizer output
    tpc,                \* tokenizer position
    m0, mA, mB,         \* merge algebra: initial rows, batch A, batch B
    mSeq, mRev, mOne,   \* merge algebra: A then B, B then A, A+B at once
    mpc,                \* merge algebra position
    present,            \* the files that exist under the directory
    dir_exists,         \* whether the directory exists
    db_path,            \* the words database this process was started with (--db)
    otherStores,        \* committed rows of the words databases not open now
    notFound,           \* history: paths the current command found missing
    tagged,             \* update_database: words get_pos_tag was called for in this call
    tagCalls,           \* history: word -> get_pos_tag calls made by committed merges
    now,                \* CURRENT_TIMESTAMP
    stamps,             \* words table: word -> [created_at, updated_at]
    processed_at,       \* processed_files table: file_path -> processed_at
    lastOp,             \* the last store or tracker operation applied
    qScan,              \* query: the order in which a scan of words yields the rows
    qLimit,             \* query: limit argument
    qFilter,            \* query: pos_filter argument
    qWord,              \* query: search_word argument
    qRows,              \* query: rows fetched by show_stats or export_words
    qFound,             \* query: what search_word reported
    qSums,              \* query: the percentage sums export_words reports
    qpc,                \* query position
    eRaises,            \* detect_encoding: whether open, read or detect raises
    eGuess,             \* detect_encoding: result['encoding']
    eConf,              \* detect_encoding: result['confidence'], in hundredths
    eDecodes,           \* detect_encoding: the encodings under which raw_data decodes
    eResult,            \* detect_encoding: the returned encoding
    epc                 \* detect_encoding position

envVars == <<present, dir_exists, db_path, otherStores>>
tagVars == <<tagged, tagCalls>>
\* The running command and the history variables.
runVars == <<content, pc, mode, unprocessed_files, idx, file_path,
             directory_path, report, txn, word_counts, crashes, merged, mergedRun,
             failed, completed, crashAt, envVars, notFound, tagVars>>
ingestVars == <<store, tracker, cmds, runVars>>
tokVars == <<text, tokens, tpc>>
algVars == <<m0, mA, mB, mSeq, mRev, mOne, mpc>>
timeVars == <<now, stamps, processed_at, lastOp>>
queryVars == <<qScan, qLimit, qFilter, qWord, qRows, qFound, qSums, qpc>>
encVars == <<eRaises, eGuess, eConf, eDecodes, eResult, epc>>
\* The variables of the function-level specifications.
pureVars == <<tokVars, algVars, timeVars, queryVars, encVars>>

vars == <<ingestVars, pureVars>>

(***************************************************************************)
(* Bounds                                                                  *)
(***************************************************************************)
MaxOcc == 1         \* occurrences of one word in one file: 0..MaxOcc
MaxCmds == 2        \* commands started in one behaviour
MaxCrashes == 1     \* process terminations in one behaviour
MaxLen == 3         \* length of a tokenizer input
MaxLimit == 4       \* row limit of a query: 0..MaxLimit

Words == {"a", "b"}
Files == {"f1", "f2"}
\* Two spellings of the same directory, e.g. "./book" and "/home/u/book".
Roots == {"./book", "/abs/book"}
\* Discovery order of os.walk over the directory.
WalkOrder == <<"f1", "f2">>
\* The labels get_pos_tag can return: a tag of the tagger, or 'UNKNOWN'.
PosTags == {"NN", "UNKNOWN"}

\* The words databases a process can be started with (--db).
DBs == {"words.db", "other.db"}

Batches == [Words -> 0..MaxOcc]
NoRows == [w \in {} |-> 0]

(***************************************************************************)
(* Paths                                                                   *)
(***************************************************************************)
\* os.path.join(root, file_name): the root is used as the caller spelled it.
join(root, f) == <<root, f>>
\* The file a path names (what a canonical path would identify).
canonical(p) == p[2]
Paths == {join(r, f) : r \in Roots, f \in Files}

(***************************************************************************)
(* Frequency store                                                         *)
(***************************************************************************)
Count(st, w) == IF w \in DOMAIN st THEN st[w].count ELSE 0

\* One iteration of the loop of update_database, with the tagger's label.
UpsertWordOverwrite(st, w, c, tag) ==
    IF w \in DOMAIN st
    THEN [st EXCEPT ![w].count = c]
    ELSE st @@ (w :> [count |-> c, pos_tag |-> tag])

UpsertWord(st, w, c, tag) ==
    IF w \in DOMAIN st
    THEN [st EXCEPT ![w].count = st[w].count + c]
    ELSE st @@ (w :> [count |-> c, pos_tag |-> tag])

\* Counter(words).items(): the words that occur.
Items(batch) == {w \in Words : batch[w] > 0}

(***************************************************************************)
(* Tracker                                                                 *)
(***************************************************************************)
is_file_processed(p) == p \in tracker

mark_file_processed_skip(p) == tracker

mark_file_processed(p) == tracker \cup {p}

\* all_txt_files of process_directory, in discovery order.
all_txt_files(root) ==
    LET found == SelectSeq(WalkOrder, LAMBDA f : f \in present)
    IN  [k \in 1..Len(found) |-> join(root, found[k])]

\* unprocessed_files of process_directory.
Unprocessed(root) == SelectSeq(all_txt_files(root), LAMBDA p : ~is_file_processed(p))

(***************************************************************************)
(* Initial state                                                           *)
(***************************************************************************)
\* No command is running, and the process was started with the default --db.
CommandIdle ==
    /\ pc = "idle"
    /\ mode = "none"
    /\ unprocessed_files = <<>>
    /\ idx = 0
    /\ file_path = <<>>
    /\ directory_path = ""
    /\ report = "none"
    /\ txn = NoRows
    /\ word_counts = {}
    /\ cmds = 0
    /\ crashes = 0
    /\ merged = [f \in Files |-> 0]
    /\ mergedRun = {}
    /\ failed = {}
    /\ completed = {}
    /\ crashAt = "none"
    /\ db_path = "words.db"
    /\ otherStores = [d \in DBs \ {"words.db"} |-> NoRows]
    /\ notFound = {}
    /\ tagged = {}
    /\ tagCalls = [w \in Words |-> 0]

IngestInit ==
    /\ store = NoRows
    /\ tracker = {}
    /\ present = Files
    /\ dir_exists = TRUE
    /\ CommandIdle

TimeIdle ==
    /\ now = 0
    /\ stamps = NoRows
    /\ processed_at = NoRows
    /\ lastOp = [op |-> "none"]

QueryIdle ==
    /\ qScan = <<>> /\ qLimit = <<>> /\ qFilter = <<>> /\ qWord = "" /\ qRows = <<>>
    /\ qFound = "none" /\ qSums = <<>> /\ qpc = "idle"

EncIdle ==
    /\ eRaises = FALSE /\ eGuess = "None" /\ eConf = 0 /\ eDecodes = {}
    /\ eResult = "none" /\ epc = "idle"

TokIdle == text = <<>> /\ tokens = <<>> /\ tpc = "idle"

AlgIdle ==
    /\ m0 = NoRows /\ mA = [w \in Words |-> 0] /\ mB = [w \in Words |-> 0]
    /\ mSeq = NoRows /\ mRev = NoRows /\ mOne = NoRows /\ mpc = "idle"

PureIdle == TokIdle /\ AlgIdle /\ TimeIdle /\ QueryIdle /\ EncIdle

Init ==
    /\ content \in [Files -> Batches]
    /\ IngestInit
    /\ PureIdle

(***************************************************************************)
(* process_directory                                                       *)
(***************************************************************************)
\* Lines 179-205 and the first iteration's header: enumerate, filter, and
\* either return (nothing to do) or enter the loop at the first file.
StartDirectory(root) ==
    /\ pc = "idle"
    /\ cmds < MaxCmds
    /\ cmds' = cmds + 1
    /\ mergedRun' = {}
    /\ failed' = {}
    /\ notFound' = {}
    /\ directory_path' = root
    /\ LET todo == Unprocessed(root) IN
       IF ~dir_exists \/ all_txt_files(root) = <<>>
       THEN \* lines 181-183 and 193-195: report and return
            /\ report' = IF dir_exists THEN "no_txt_files" ELSE "no_directory"
            /\ unprocessed_files' = <<>>
            /\ idx' = 0
            /\ file_path' = <<>>
            /\ UNCHANGED <<pc, mode, completed>>
       ELSE IF todo = <<>>
       THEN /\ report' = "all_processed"
            /\ completed' = completed \cup {root}
            /\ unprocessed_files' = <<>>
            /\ idx' = 0
            /\ file_path' = <<>>
            /\ UNCHANGED <<pc, mode>>
       ELSE /\ pc' = "process"
            /\ mode' = "dir"
            /\ unprocessed_files' = todo
            /\ idx' = 1
            /\ file_path' = todo[1]
            /\ report' = "none"
            /\ UNCHANGED completed
    /\ UNCHANGED <<content, envVars, store, tracker, txn, word_counts, crashes, merged,
                   crashAt, tagVars, pureVars>>

\* main, lines 394-396: process one file given on the command line.
StartFile(p) ==
    /\ pc = "idle"
    /\ cmds < MaxCmds
    /\ cmds' = cmds + 1
    /\ pc' = "process"
    /\ mode' = "file"
    /\ file_path' = p
    /\ directory_path' = ""
    /\ report' = "none"
    /\ unprocessed_files' = <<>>
    /\ idx' = 0
    /\ mergedRun' = {}
    /\ failed' = {}
    /\ notFound' = {}
    /\ UNCHANGED <<content, envVars, store, tracker, txn, word_counts, crashes, merged,
                   completed, crashAt, tagVars, pureVars>>

\* Where control goes when process_text_file returns: to line 212 inside
\* process_directory, or back to main.
AfterProcess == IF mode = "dir" THEN "mark" ELSE "idle"

(***************************************************************************)
(* process_text_file                                                       *)
(***************************************************************************)
\* Lines 130-153: a file that does not exist is reported and the function
\* returns (line 132).  Otherwise the file is read and tokenized.  No words:
\* return at line 147.  Otherwise update_database opens its connection.
ReadFile ==
    /\ pc = "process"
    /\ LET batch == content[canonical(file_path)] IN
       IF canonical(file_path) \notin present
       THEN /\ pc' = AfterProcess
            /\ mode' = IF mode = "dir" THEN "dir" ELSE "none"
            /\ notFound' = notFound \cup {file_path}
            /\ UNCHANGED <<txn, word_counts>>
       ELSE IF Items(batch) = {}
       THEN /\ pc' = AfterProcess
            /\ mode' = IF mode = "dir" THEN "dir" ELSE "none"
            /\ UNCHANGED <<txn, word_counts, notFound>>
       ELSE /\ pc' = "merge"
            /\ txn' = store
            /\ word_counts' = Items(batch)
            /\ UNCHANGED <<mode, notFound>>
    /\ UNCHANGED <<content, envVars, store, tracker, unprocessed_files, idx, file_path, directory_path, report,
                   cmds, crashes, merged, mergedRun, failed, completed, crashAt,
                   tagVars, pureVars>>

\* Lines 158-160 reached from lines 136-143: open or read raised; the
\* exception is caught and process_text_file returns normally.
ReadErrorAbort ==
    /\ pc = "process"
    /\ pc' = "idle"
    /\ mode' = "none"
    /\ failed' = IF mode = "dir" THEN failed \cup {file_path} ELSE failed
    /\ UNCHANGED <<content, envVars, store, tracker, unprocessed_files, idx, file_path, directory_path, report,
                   txn, word_counts, cmds, crashes, merged, mergedRun, completed,
                   crashAt, notFound, tagVars, pureVars>>

ReadError ==
    /\ pc = "process"
    /\ pc' = AfterProcess
    /\ mode' = IF mode = "dir" THEN "dir" ELSE "none"
    /\ failed' = IF mode = "dir" THEN failed \cup {file_path} ELSE failed
    /\ UNCHANGED <<content, envVars, store, tracker, unprocessed_files, idx, file_path, directory_path, report,
                   txn, word_counts, cmds, crashes, merged, mergedRun, completed,
                   crashAt, notFound, tagVars, pureVars>>

(***************************************************************************)
(* update_database                                                         *)
(***************************************************************************)
\* Lines 222-242, one iteration: SELECT, then UPDATE or get_pos_tag and
\* INSERT, all inside the connection's open transaction.
MergeWordAutocommit ==
    /\ pc = "merge"
    /\ word_counts # {}
    /\ \E w \in word_counts, tag \in PosTags :
         /\ txn' = UpsertWord(txn, w, content[canonical(file_path)][w], tag)
         /\ store' = txn'
         /\ tagged' = IF w \in DOMAIN txn THEN tagged ELSE tagged \cup {w}
         /\ word_counts' = word_counts \ {w}
    /\ UNCHANGED <<content, envVars, tracker, pc, mode, unprocessed_files, idx,
                   file_path, directory_path, report, cmds, crashes, merged, mergedRun, failed, completed,
                   crashAt, notFound, tagCalls, pureVars>>

MergeWordRetag ==
    /\ pc = "merge"
    /\ word_counts # {}
    /\ \E w \in word_counts, tag \in PosTags :
         /\ txn' = IF w \in DOMAIN txn
                   THEN [txn EXCEPT ![w] =
                            [count |-> @.count + content[canonical(file_path)][w],
                             pos_tag |-> tag]]
                   ELSE UpsertWord(txn, w, content[canonical(file_path)][w], tag)
         /\ tagged' = tagged \cup {w}
         /\ word_counts' = word_counts \ {w}
    /\ UNCHANGED <<content, envVars, store, tracker, pc, mode, unprocessed_files, idx,
                   file_path, directory_path, report, cmds, crashes, merged, mergedRun, failed, completed,
                   crashAt, notFound, tagCalls, pureVars>>

MergeWord ==
    /\ pc = "merge"
    /\ word_counts # {}
    /\ \E w \in word_counts :
         /\ IF w \in DOMAIN txn
            THEN \* lines 231-236: UPDATE; get_pos_tag is not called
                 /\ txn' = UpsertWord(txn, w, content[canonical(file_path)][w],
                                      txn[w].pos_tag)
                 /\ UNCHANGED tagged
            ELSE \* lines 238-242: get_pos_tag, then INSERT
                 /\ \E tag \in PosTags :
                      txn' = UpsertWord(txn, w, content[canonical(file_path)][w], tag)
                 /\ tagged' = tagged \cup {w}
         /\ word_counts' = word_counts \ {w}
    /\ UNCHANGED <<content, envVars, store, tracker, pc, mode, unprocessed_files, idx,
                   file_path, directory_path, report, cmds, crashes, merged, mergedRun, failed, completed,
                   crashAt, notFound, tagCalls, pureVars>>

\* A statement of update_database raises (sqlite3.Error): the connection is
\* dropped without commit, its transaction is rolled back, and the handler
\* at lines 158-160 returns normally.
MergeError ==
    /\ pc = "merge"
    /\ pc' = AfterProcess
    /\ mode' = IF mode = "dir" THEN "dir" ELSE "none"
    /\ txn' = NoRows
    /\ word_counts' = {}
    /\ failed' = IF mode = "dir" THEN failed \cup {file_path} ELSE failed
    /\ tagged' = {}
    /\ UNCHANGED <<content, envVars, store, tracker, unprocessed_files, idx, file_path, directory_path, report,
                   cmds, crashes, merged, mergedRun, completed, crashAt,
                   notFound, tagCalls, pureVars>>

\* Lines 244-245: conn.commit() makes the transaction's rows durable.
Commit ==
    /\ pc = "merge"
    /\ word_counts = {}
    /\ store' = txn
    /\ txn' = NoRows
    /\ pc' = AfterProcess
    /\ mode' = IF mode = "dir" THEN "dir" ELSE "none"
    /\ merged' = [merged EXCEPT ![canonical(file_path)] = @ + 1]
    /\ mergedRun' = mergedRun \cup {file_path}
    /\ tagCalls' = [w \in Words |-> tagCalls[w] + IF w \in tagged THEN 1 ELSE 0]
    /\ tagged' = {}
    /\ UNCHANGED <<content, envVars, tracker, unprocessed_files, idx, file_path, directory_path, report,
                   word_counts, cmds, crashes, failed, completed, crashAt,
                   notFound, pureVars>>

(***************************************************************************)
(* process_directory, lines 212-215                                        *)
(***************************************************************************)
MarkProcessed ==
    /\ pc = "mark"
    /\ tracker' = mark_file_processed(file_path)
    /\ IF idx < Len(unprocessed_files)
       THEN /\ idx' = idx + 1
            /\ file_path' = unprocessed_files[idx + 1]
            /\ pc' = "process"
            /\ UNCHANGED <<mode, completed, report>>
       ELSE /\ pc' = "idle"
            /\ mode' = "none"
            /\ report' = "finished"
            /\ completed' = completed \cup {directory_path}
            /\ UNCHANGED <<idx, file_path>>
    /\ UNCHANGED <<content, envVars, store, unprocessed_files, directory_path, txn,
                   word_counts, cmds, crashes, merged, mergedRun, failed, crashAt,
                   notFound, tagVars, pureVars>>

(***************************************************************************)
(* A new process started with another --db                                 *)
(***************************************************************************)
\* WordCounter(args.db), lines 21-26: db_path is the argument, while
\* progress_db_path is always "progress.db", so the tracker stays the same.
SwitchDb(db) ==
    /\ pc = "idle"
    /\ db # db_path
    /\ db_path' = db
    /\ store' = otherStores[db]
    /\ otherStores' = [d \in DBs \ {db} |-> IF d = db_path THEN store ELSE otherStores[d]]
    /\ report' = "none"
    /\ UNCHANGED <<content, present, dir_exists, tracker, pc, mode, unprocessed_files,
                   idx, file_path, directory_path, txn, word_counts, cmds, crashes,
                   merged, mergedRun, failed, completed, crashAt, notFound, tagVars,
                   pureVars>>

(***************************************************************************)
(* The file system under the directory                                     *)
(***************************************************************************)
\* Another process deletes a file; os.path.exists (line 130) and os.walk
\* (line 187) see the file system as it is when they run.
RemoveFile(f) ==
    /\ f \in present
    /\ present' = present \ {f}
    /\ UNCHANGED <<content, dir_exists, db_path, otherStores, store, tracker, pc, mode,
                   unprocessed_files, idx, file_path, directory_path, report, txn,
                   word_counts, cmds, crashes, merged, mergedRun, failed, completed,
                   crashAt, notFound, tagVars, pureVars>>

(***************************************************************************)
(* Process termination at any step of a running command                    *)
(***************************************************************************)
Crash ==
    /\ pc # "idle"
    /\ crashes < MaxCrashes
    /\ crashes' = crashes + 1
    /\ crashAt' = IF pc = "merge" /\ txn # store /\ word_counts # {}
                  THEN "merge_partial" ELSE pc
    /\ pc' = "idle"
    /\ mode' = "none"
    /\ unprocessed_files' = <<>>
    /\ idx' = 0
    /\ file_path' = <<>>
    /\ directory_path' = ""
    /\ report' = "none"
    /\ txn' = NoRows
    /\ word_counts' = {}
    /\ tagged' = {}
    /\ UNCHANGED <<content, envVars, store, tracker, cmds, merged, mergedRun, failed,
                   completed, notFound, tagCalls, pureVars>>

(***************************************************************************)
(* Tokenizer: extract_words                                                *)
(***************************************************************************)
AsciiLower == <<"a", "b", "c", "d", "e", "f", "g", "h", "i", "j", "k", "l", "m",
                "n", "o", "p", "q", "r", "s", "t", "u", "v", "w", "x", "y", "z">>
AsciiUpper == <<"A", "B", "C", "D", "E", "F", "G", "H", "I", "J", "K", "L", "M",
                "N", "O", "P", "Q", "R", "S", "T", "U", "V", "W", "X", "Y", "Z">>
Digits == {"0", "1", "2", "3", "4", "5", "6", "7", "8", "9"}
\* A \w character outside ASCII (e-acute), one character of the text; the
\* non-ASCII letters and numerals all behave like it.
NonAsciiLetters == {"U+00E9"}

Range(f) == {f[k] : k \in DOMAIN f}

\* The character class [a-zA-Z] of the pattern.
IsAsciiLetter(c) == c \in Range(AsciiLower) \cup Range(AsciiUpper)

\* The class \w of a str pattern: Unicode letters, digits and underscore.
IsWordChar(c) ==
    IsAsciiLetter(c) \/ c \in Digits \/ c = "_" \/ c \in NonAsciiLetters

\* The pattern without its \b anchors: every position passes.
WordBoundaryAlways(t, i) == TRUE

\* \b at position i (before character i, i in 1..Len+1): exactly one of the
\* characters on its two sides is a \w character.
WordBoundary(t, i) ==
    LET before == i > 1 /\ IsWordChar(t[i - 1])
        after  == i <= Len(t) /\ IsWordChar(t[i])
    IN before # after

\* str.lower() of one character of a token.
ToLower(c) ==
    IF c \in Range(AsciiUpper)
    THEN AsciiLower[CHOOSE k \in DOMAIN AsciiUpper : AsciiUpper[k] = c]
    ELSE c

lower(tok) == [k \in DOMAIN tok |-> ToLower(tok[k])]

\* One attempt of \b[a-zA-Z]+\b at position i: the end (exclusive) of the
\* match, or 0.  [a-zA-Z]+ is greedy and gives characters back until the
\* closing \b holds.
MatchEnd(t, i) ==
    IF ~WordBoundary(t, i) THEN 0
    ELSE LET ends == {e \in (i + 1)..(Len(t) + 1) :
                        /\ \A k \in i..(e - 1) : IsAsciiLetter(t[k])
                        /\ WordBoundary(t, e)}
         IN IF ends = {} THEN 0
            ELSE CHOOSE e \in ends : \A x \in ends : x <= e

\* re.findall scanning from position i: non-overlapping matches, left to
\* right; after a failed attempt the scan moves on by one character.
RECURSIVE findall(_, _)
findall(t, i) ==
    IF i > Len(t) THEN <<>>
    ELSE LET e == MatchEnd(t, i) IN
         IF e = 0 THEN findall(t, i + 1)
         ELSE <<SubSeq(t, i, e - 1)>> \o findall(t, e)

extract_words(t) ==
    LET words == findall(t, 1) IN [k \in DOMAIN words |-> lower(words[k])]

Alphabet == {"a", "B", "1", "_", "-", "'", " ", "U+00E9"}

ExampleText ==
    <<"H", "e", "l", "l", "o", ",", " ", "w", "o", "r", "l", "d", "!", " ",
      "I", "t", "'", "s", " ", "H", "E", "L", "L", "O", "-", "w", "o", "r",
      "l", "d", "_", "1", "2", "3", ".">>

Texts == UNION {[1..n -> Alphabet] : n \in 0..MaxLen} \cup {ExampleText}

Tokenize ==
    /\ tpc = "ready"
    /\ tokens' = extract_words(text)
    /\ tpc' = "done"
    /\ UNCHANGED <<text, ingestVars, algVars, timeVars, queryVars, encVars>>

(***************************************************************************)
(* update_database as a function of the rows and the batch                 *)
(***************************************************************************)
RECURSIVE MergeItems(_, _, _, _)
MergeItems(st, batch, todo, tagger) ==
    IF todo = {} THEN st
    ELSE LET w == CHOOSE x \in todo : TRUE IN
         MergeItems(UpsertWord(st, w, batch[w], tagger[w]), batch, todo \ {w},
                    tagger)

\* tagger: the label get_pos_tag returns for each word during this call.
update_database(st, batch, tagger) == MergeItems(st, batch, Items(batch), tagger)

\* Counter addition: the multiset sum of two batches.
BatchSum(A, B) == [w \in Words |-> A[w] + B[w]]

Rows == [count : 1..(MaxOcc + 1), pos_tag : PosTags]
Stores == UNION {[D -> Rows] : D \in SUBSET Words}
Taggers == [Words -> PosTags]

MergeFirst ==
    /\ mpc = "start"
    /\ \E tagger \in Taggers :
         /\ mSeq' = update_database(m0, mA, tagger)
         /\ mRev' = update_database(m0, mB, tagger)
    /\ mpc' = "half"
    /\ UNCHANGED <<m0, mA, mB, mOne, ingestVars, tokVars, timeVars, queryVars, encVars>>

MergeSecond ==
    /\ mpc = "half"
    /\ \E tagger \in Taggers :
         /\ mSeq' = update_database(mSeq, mB, tagger)
         /\ mRev' = update_database(mRev, mA, tagger)
    /\ mpc' = "both"
    /\ UNCHANGED <<m0, mA, mB, mOne, ingestVars, tokVars, timeVars, queryVars, encVars>>

MergeOnce ==
    /\ mpc = "both"
    /\ \E tagger \in Taggers :
         mOne' = update_database(m0, BatchSum(mA, mB), tagger)
    /\ mpc' = "done"
    /\ UNCHANGED <<m0, mA, mB, mSeq, mRev, ingestVars, tokVars, timeVars, queryVars, encVars>>

(***************************************************************************)
(* show_stats, search_word, export_words                                   *)
(***************************************************************************)
\* The store of the ranking example: cat 5, bat 5, dog 3.
ExampleStore ==
    ("cat" :> [count |-> 5, pos_tag |-> "NN"]) @@
    ("bat" :> [count |-> 5, pos_tag |-> "NN"]) @@
    ("dog" :> [count |-> 3, pos_tag |-> "UNKNOWN"])

QueryStores == Stores \cup {ExampleStore}

\* The words of the query stores in ascending order of the BINARY collation.
Lexicon == <<"a", "b", "bat", "cat", "dog">>
WordIndex(w) == CHOOSE k \in DOMAIN Lexicon : Lexicon[k] = w

\* The orders in which a table scan can yield the rows of a set of words.
Scans(S) == {sc \in [1..Cardinality(S) -> S] : Range(sc) = S}

\* ORDER BY count DESC, word ASC: row x sorts before row y.
RowBefore(st, x, y) ==
    \/ st[x].count > st[y].count
    \/ st[x].count = st[y].count /\ WordIndex(x) < WordIndex(y)

\* One step of the sorter: x goes behind the rows that do not sort after it.
InsertRow(st, sorted, x) ==
    LET k == Cardinality({i \in DOMAIN sorted : ~RowBefore(st, x, sorted[i])})
    IN  SubSeq(sorted, 1, k) \o <<x>> \o SubSeq(sorted, k + 1, Len(sorted))

RECURSIVE OrderBy(_, _)
OrderBy(st, scan) ==
    IF scan = <<>> THEN <<>>
    ELSE InsertRow(st, OrderBy(st, SubSeq(scan, 1, Len(scan) - 1)), scan[Len(scan)])

\* LIMIT n, for n >= 0.
Limit(rows, n) == SubSeq(rows, 1, IF n < Len(rows) THEN n ELSE Len(rows))

\* The limit argument: <<>> is None, <<n>> is the integer n.
Limits == {<<>>} \cup {<<n>> : n \in 0..MaxLimit}
\* Python truth value of the limit argument (line 329).
Truthy(l) == l # <<>> /\ l[1] # 0

\* The characters of a stored tag.
TagChars(tag) ==
    IF tag = "NN" THEN <<"N", "N">>
    ELSE <<"U", "N", "K", "N", "O", "W", "N">>

\* The pos_filter argument as characters; <<>> is None or the empty string.
Filters == {<<>>, <<"N", "N">>, <<"n", "n">>, <<"N">>, <<"K">>, <<"V", "B">>}

\* LIKE compares ASCII letters without regard to case; '_' matches any one
\* character.
CharLike(p, c) == p = "_" \/ ToLower(p) = ToLower(c)

\* pos_tag LIKE '%filter%'.
Like(filter, chars) ==
    \E i \in 0..(Len(chars) - Len(filter)) :
        \A k \in 1..Len(filter) : CharLike(filter[k], chars[i + k])

WhereAll(st, scan, filter) == scan

\* The rows selected by where_clause (lines 316-318).
Where(st, scan, filter) ==
    IF filter = <<>> THEN scan
    ELSE SelectSeq(scan, LAMBDA w : Like(filter, TagChars(st[w].pos_tag)))

RECURSIVE SumCount(_, _)
\* SELECT SUM(count) over the rows of ws, 'or 0'.
SumCount(st, ws) ==
    IF ws = <<>> THEN 0 ELSE st[ws[1]].count + SumCount(st, Tail(ws))

\* The sum over the rows of (count / total) * 100 if total > 0 else 0, kept
\* exact as <<numerator, denominator>>.
PercentageSum(st, rows, total) ==
    IF total > 0 THEN <<100 * SumCount(st, rows), total>> ELSE <<0, 1>>

ShowStats(limit) ==
    /\ qpc = "ready"
    /\ qpc' = "stats"
    /\ qLimit' = <<limit>>
    /\ LET results == Limit(OrderBy(store, qScan), limit) IN
       qRows' = [k \in DOMAIN results |->
                    [word |-> results[k], count |-> store[results[k]].count]]
    /\ UNCHANGED <<qScan, qFilter, qWord, qFound, qSums, ingestVars, tokVars,
                   algVars, timeVars, encVars>>

SearchWordCreate(word) ==
    /\ qpc = "ready"
    /\ qpc' = "search"
    /\ qWord' = word
    /\ qFound' = IF ToLower(word) \in DOMAIN store THEN "found" ELSE "not_found"
    /\ store' = IF ToLower(word) \in DOMAIN store THEN store
                ELSE store @@ (ToLower(word) :> [count |-> 1, pos_tag |-> "UNKNOWN"])
    /\ UNCHANGED <<qScan, qLimit, qFilter, qRows, qSums, tracker, cmds, runVars,
                   tokVars, algVars, timeVars, encVars>>

SearchWord(word) ==
    /\ qpc = "ready"
    /\ qpc' = "search"
    /\ qWord' = word
    /\ qFound' = IF ToLower(word) \in DOMAIN store THEN "found" ELSE "not_found"
    /\ UNCHANGED <<qScan, qLimit, qFilter, qRows, qSums, ingestVars, tokVars,
                   algVars, timeVars, encVars>>

ExportWords(limit, pos_filter) ==
    /\ qpc = "ready"
    /\ qpc' = "export"
    /\ qLimit' = limit
    /\ qFilter' = pos_filter
    /\ LET all_words_total == SumCount(store, qScan)
           matching == Where(store, qScan, pos_filter)
           filtered_total == IF pos_filter # <<>> THEN SumCount(store, matching)
                             ELSE all_words_total
           ordered == OrderBy(store, matching)
           results == IF Truthy(limit) THEN Limit(ordered, limit[1]) ELSE ordered
       IN  /\ qRows' = [k \in DOMAIN results |->
                           [word |-> results[k], count |-> store[results[k]].count,
                            pos_tag |-> store[results[k]].pos_tag]]
           /\ qSums' = [filtered_percentage |->
                           PercentageSum(store, results, filtered_total),
                        all_percentage |->
                           PercentageSum(store, results, all_words_total)]
    /\ UNCHANGED <<qScan, qWord, qFound, ingestVars, tokVars, algVars, timeVars,
                   encVars>>

\* The --search arguments tried.
Lookups == {"a", "b", "A", "B", "c"}

(***************************************************************************)
(* Timestamps of the two tables                                            *)
(***************************************************************************)
\* INSERT INTO processed_files (file_path) on a path that has a row: the
\* UNIQUE constraint fails and the statement raises.
Insert(rows, p, t) ==
    IF p \in DOMAIN rows
    THEN [rows |-> rows, error |-> TRUE]
    ELSE [rows |-> rows @@ (p :> t), error |-> FALSE]

\* INSERT OR IGNORE INTO processed_files (file_path), line 175: processed_at
\* defaults to CURRENT_TIMESTAMP; a conflicting row is skipped silently.
InsertOrIgnore(rows, p, t) ==
    IF p \in DOMAIN rows
    THEN [rows |-> rows, error |-> FALSE]
    ELSE [rows |-> rows @@ (p :> t), error |-> FALSE]

\* The trigger without its WHERE clause: every row is stamped.
TouchAll(sp, w, t) ==
    IF w \in DOMAIN sp
    THEN [x \in DOMAIN sp |-> [sp[x] EXCEPT !.updated_at = t]]
    ELSE sp @@ (w :> [created_at |-> t, updated_at |-> t])

\* Timestamps written by one iteration of update_database: an UPDATE fires
\* update_timestamp for that row (WHERE id = NEW.id); an INSERT takes both
\* column defaults.
Touch(sp, w, t) ==
    IF w \in DOMAIN sp
    THEN [sp EXCEPT ![w].updated_at = t]
    ELSE sp @@ (w :> [created_at |-> t, updated_at |-> t])

RECURSIVE StampItems(_, _, _)
StampItems(sp, todo, t) ==
    IF todo = {} THEN sp
    ELSE LET w == CHOOSE x \in todo : TRUE IN
         StampItems(Touch(sp, w, t), todo \ {w}, t)

\* CURRENT_TIMESTAMP advances.
Tick ==
    /\ now < MaxCmds
    /\ now' = now + 1
    /\ UNCHANGED <<stamps, processed_at, lastOp, ingestVars, tokVars, algVars,
                   queryVars, encVars>>

\* mark_file_processed(p), lines 171-177.
MarkFile(p) ==
    /\ cmds < MaxCmds
    /\ cmds' = cmds + 1
    /\ LET res == InsertOrIgnore(processed_at, p, now) IN
         /\ processed_at' = res.rows
         /\ tracker' = IF res.error THEN tracker ELSE mark_file_processed(p)
         /\ lastOp' = [op |-> "mark", path |-> p, repeated |-> is_file_processed(p),
                       error |-> res.error]
    /\ UNCHANGED <<now, stamps, store, runVars, tokVars, algVars, queryVars, encVars>>

\* update_database(Counter) with its commit, lines 217-245.
MergeBatch(batch) ==
    /\ cmds < MaxCmds
    /\ cmds' = cmds + 1
    /\ Items(batch) # {}
    /\ \E tagger \in Taggers : store' = update_database(store, batch, tagger)
    /\ stamps' = StampItems(stamps, Items(batch), now)
    /\ lastOp' = [op |-> "merge", batch |-> batch]
    /\ UNCHANGED <<now, processed_at, tracker, runVars, tokVars, algVars, queryVars,
                   encVars>>

(***************************************************************************)
(* detect_encoding                                                         *)
(***************************************************************************)
\* The confidence threshold 0.7 of line 116, in hundredths.
Threshold == 70

\* The encodings tried at line 117, in order.
FallbackList == <<"utf-8", "gbk", "gb2312", "big5", "latin-1">>

\* result['encoding'] of chardet.detect: a name, or None.
Guesses == {"None", "GB2312", "Windows-1252"}
\* result['confidence'], in hundredths.
Confidences == {0, Threshold - 1, Threshold, 100}

\* The sets of fallback encodings under which some byte string decodes:
\* latin-1 decodes every byte string, and gbk decodes whatever gb2312 does.
Decodables ==
    {D \in SUBSET Range(FallbackList) :
        "latin-1" \in D /\ ("gb2312" \in D => "gbk" \in D)}

BelowOrAtThreshold(confidence) == confidence <= Threshold

\* Line 116: confidence < 0.7.
BelowThreshold(confidence) == confidence < Threshold

\* Lines 108-126.
DetectEncoding ==
    /\ epc = "ready"
    /\ epc' = "done"
    /\ LET accepted == {k \in DOMAIN FallbackList : FallbackList[k] \in eDecodes}
           first == CHOOSE k \in accepted : \A j \in accepted : k <= j
       IN  eResult' =
             IF eRaises THEN "utf-8"
             ELSE IF BelowThreshold(eConf) /\ accepted # {} THEN FallbackList[first]
             ELSE IF eGuess # "None" THEN eGuess
             ELSE "utf-8"
    /\ UNCHANGED <<eRaises, eGuess, eConf, eDecodes, ingestVars, tokVars, algVars,
                   timeVars, queryVars>>

(***************************************************************************)
(* Specifications                                                          *)
(***************************************************************************)
RunStep ==
    \/ ReadFile
    \/ ReadError
    \/ MergeWord
    \/ MergeError
    \/ Commit
    \/ MarkProcessed

Next ==
    \/ \E root \in Roots : StartDirectory(root)
    \/ \E p \in Paths : StartFile(p)
    \/ ReadFile
    \/ ReadError
    \/ MergeWord
    \/ MergeError
    \/ Commit
    \/ MarkProcessed
    \/ Crash

Spec == Init /\ [][Next]_vars

\* process_directory on one root, re-run after every termination, with no
\* per-file error.
NextResume ==
    \/ StartDirectory("./book")
    \/ ReadFile
    \/ MergeWord
    \/ Commit
    \/ MarkProcessed
    \/ Crash

ResumeSpec == Init /\ [][NextResume]_vars

\* process_directory runs that are not terminated from outside.  The
\* interpreter runs a started command to its return.
NextLive ==
    \/ \E root \in Roots : StartDirectory(root)
    \/ ReadFile
    \/ ReadError
    \/ MergeWord
    \/ MergeError
    \/ Commit
    \/ MarkProcessed

LiveSpec == Init /\ [][NextLive]_vars /\ WF_vars(RunStep)

NoFiles == [f \in Files |-> [w \in Words |-> 0]]

TokInit ==
    /\ content = NoFiles
    /\ IngestInit
    /\ AlgIdle /\ TimeIdle /\ QueryIdle /\ EncIdle
    /\ text \in Texts
    /\ tokens = <<>>
    /\ tpc = "ready"

TokSpec == TokInit /\ [][Tokenize]_vars

AlgInit ==
    /\ content = NoFiles
    /\ IngestInit
    /\ TokIdle /\ TimeIdle /\ QueryIdle /\ EncIdle
    /\ m0 \in Stores
    /\ mA \in Batches
    /\ mB \in Batches
    /\ mSeq = m0
    /\ mRev = m0
    /\ mOne = m0
    /\ mpc = "start"

NextAlg == MergeFirst \/ MergeSecond \/ MergeOnce

AlgSpec == AlgInit /\ [][NextAlg]_vars

\* Commands on a directory that may be absent and whose files may be
\* deleted at any moment, with no read error and no termination.
MissingInit ==
    /\ content \in [Files -> Batches]
    /\ store = NoRows
    /\ tracker = {}
    /\ dir_exists \in BOOLEAN
    /\ present \in IF dir_exists THEN SUBSET Files ELSE {{}}
    /\ CommandIdle
    /\ PureIdle

NextMissing ==
    \/ \E root \in Roots : StartDirectory(root)
    \/ \E p \in Paths : StartFile(p)
    \/ \E f \in Files : RemoveFile(f)
    \/ ReadFile
    \/ MergeWord
    \/ Commit
    \/ MarkProcessed

MissingSpec == MissingInit /\ [][NextMissing]_vars

\* Single-file commands against a words database that already holds any
\* rows, with read errors, merge errors and terminations.
StoreInit ==
    /\ content \in [Files -> Batches]
    /\ store \in Stores
    /\ tracker = {}
    /\ present = Files
    /\ dir_exists = TRUE
    /\ CommandIdle
    /\ PureIdle

NextStore ==
    \/ \E f \in Files : StartFile(join("./book", f))
    \/ ReadFile
    \/ ReadError
    \/ MergeWord
    \/ MergeError
    \/ Commit
    \/ Crash

StoreSpec == StoreInit /\ [][NextStore]_vars

\* One query against a words database holding any rows, scanned in any order.
QueryInit ==
    /\ content = NoFiles
    /\ store \in QueryStores
    /\ tracker \in {{}, {join("./book", "f1")}}
    /\ present = Files
    /\ dir_exists = TRUE
    /\ CommandIdle
    /\ TokIdle /\ AlgIdle /\ TimeIdle /\ EncIdle
    /\ qScan \in Scans(DOMAIN store)
    /\ qLimit = <<>> /\ qFilter = <<>> /\ qWord = "" /\ qRows = <<>>
    /\ qFound = "none" /\ qSums = <<>>
    /\ qpc = "ready"

NextQuery ==
    \/ \E limit \in 0..MaxLimit : ShowStats(limit)
    \/ \E word \in Lookups : SearchWord(word)
    \/ \E limit \in Limits, pos_filter \in Filters : ExportWords(limit, pos_filter)

QuerySpec == QueryInit /\ [][NextQuery]_vars

\* Merges and marks applied in any order to any words database and to an
\* empty or non-empty tracker, with the clock advancing between them.
TimeInit ==
    /\ content = NoFiles
    /\ store \in Stores
    /\ stamps = [w \in DOMAIN store |-> [created_at |-> 0, updated_at |-> 0]]
    /\ tracker \in {{}, {join("./book", "f1")}}
    /\ processed_at = [p \in tracker |-> 0]
    /\ now = 1
    /\ lastOp = [op |-> "none"]
    /\ present = Files
    /\ dir_exists = TRUE
    /\ CommandIdle
    /\ TokIdle /\ AlgIdle /\ QueryIdle /\ EncIdle

NextTime ==
    \/ Tick
    \/ \E f \in Files : MarkFile(join("./book", f))
    \/ \E batch \in Batches : MergeBatch(batch)

TimeSpec == TimeInit /\ [][NextTime]_vars

\* detect_encoding on any file: unreadable, or read and rated by the detector.
EncInit ==
    /\ content = NoFiles
    /\ IngestInit
    /\ TokIdle /\ AlgIdle /\ TimeIdle /\ QueryIdle
    /\ eRaises \in BOOLEAN
    /\ eGuess \in Guesses
    /\ eConf \in IF eGuess = "None" THEN {0} ELSE Confidences
    /\ eDecodes \in Decodables
    /\ eResult = "none"
    /\ epc = "ready"

EncSpec == EncInit /\ [][DetectEncoding]_vars

\* process_directory on one directory by processes started with any --db,
\* with no error and no termination.
NextDb ==
    \/ StartDirectory("./book")
    \/ \E db \in DBs : SwitchDb(db)
    \/ ReadFile
    \/ MergeWord
    \/ Commit
    \/ MarkProcessed

DbSpec == Init /\ [][NextDb]_vars

(***************************************************************************)
(* Properties                                                              *)
(***************************************************************************)
RECURSIVE Sum(_, _)
\* The sum of g[f] over the files f of S.
Sum(g, S) ==
    IF S = {} THEN 0
    ELSE LET f == CHOOSE x \in S : TRUE IN g[f] + Sum(g, S \ {f})

\* Occurrences of w in the files of S, each file counted once.
Occurrences(w, S) == Sum([f \in Files |-> content[f][w]], S)

\* The files that have a marker in the tracker, under any spelling.
MarkedFiles == {canonical(p) : p \in tracker}

\* C1 (as claimed): once a run of process_directory on the directory has
\* returned, whatever terminations and re-runs came before, every word's
\* count is the count one uninterrupted run gives (each file's occurrences
\* once) and every file with words was merged exactly once.
ResumeExactlyOnce ==
    (pc = "idle" /\ "./book" \in completed) =>
        /\ \A w \in Words : Count(store, w) = Occurrences(w, Files)
        /\ \A f \in Files : Items(content[f]) # {} => merged[f] = 1

\* C2 (as claimed): when a process_directory run has returned, no file whose
\* processing raised in that run has a marker in the tracker.
FailedFileNotMarked ==
    report = "finished" => \A p \in failed : ~is_file_processed(p)

\* C3 (as claimed): no file's batch is committed to the store more than
\* once, whatever commands ran.
MergedAtMostOnce == \A f \in Files : merged[f] <= 1

\* C4 (as claimed): between commands, every word's stored count is the sum
\* of its occurrences over exactly the files that have a marker.
CountsMatchMarkers ==
    pc = "idle" => \A w \in Words : Count(store, w) = Occurrences(w, MarkedFiles)

\* C5: in every state, also right after a termination in the middle of
\* update_database, the committed rows are those of a whole number of
\* merged files: each word's count is the sum over the files of (number of
\* committed merges of the file) * (occurrences in the file).
MergeIsAtomic ==
    \A w \in Words :
        Count(store, w) = Sum([f \in Files |-> merged[f] * content[f][w]], Files)

\* C5 witness: the process was terminated inside update_database after some
\* but not all words of the batch had been written in the transaction.
CrashedMidMerge == crashAt = "merge_partial" /\ pc = "idle"

\* C6: merging A then B, and B then A, leaves every word with the count
\* that one merge of the multiset sum A + B leaves.
MergeIsAdditive ==
    mpc = "done" =>
        \A w \in Words : /\ Count(mSeq, w) = Count(mOne, w)
                         /\ Count(mRev, w) = Count(mOne, w)

\* C6 witness: both batches hold a word the store already has, and the
\* three merges are done.
MergedOverlappingBatches ==
    /\ mpc = "done"
    /\ \E w \in DOMAIN m0 : mA[w] > 0 /\ mB[w] > 0
    /\ \E w \in Words \ DOMAIN m0 : mA[w] > 0 /\ mB[w] > 0

\* The run of ASCII letters that starts at position i ends at RunEnd(t, i).
RunEnd(t, i) ==
    CHOOSE j \in i..Len(t) :
        /\ \A k \in i..j : IsAsciiLetter(t[k])
        /\ j = Len(t) \/ ~IsAsciiLetter(t[j + 1])

\* The positions where a maximal run of ASCII letters starts.
RunStarts(t) ==
    {i \in 1..Len(t) : IsAsciiLetter(t[i]) /\ (i = 1 \/ ~IsAsciiLetter(t[i - 1]))}

\* The maximal runs that have no other \w character (digit, underscore,
\* non-ASCII letter or numeral) directly before or after them.
IsolatedRunStarts(t) ==
    {i \in RunStarts(t) :
        /\ i = 1 \/ ~IsWordChar(t[i - 1])
        /\ RunEnd(t, i) = Len(t) \/ ~IsWordChar(t[RunEnd(t, i) + 1])}

RECURSIVE LoweredRuns(_, _)
\* The lower-cased runs starting at the positions of S, left to right.
LoweredRuns(t, S) ==
    IF S = {} THEN <<>>
    ELSE LET i == CHOOSE x \in S : \A y \in S : x <= y IN
         <<lower(SubSeq(t, i, RunEnd(t, i)))>> \o LoweredRuns(t, S \ {i})

ExampleTokensClaimed ==
    <<<<"h", "e", "l", "l", "o">>, <<"w", "o", "r", "l", "d">>, <<"i", "t">>,
      <<"s">>, <<"h", "e", "l", "l", "o">>, <<"w", "o", "r", "l", "d">>>>

ExampleTokensActual ==
    <<<<"h", "e", "l", "l", "o">>, <<"w", "o", "r", "l", "d">>, <<"i", "t">>,
      <<"s">>, <<"h", "e", "l", "l", "o">>>>

TrackedFileNotMergedAgain ==
    (mode = "dir" /\ pc = "merge") =>
        ~(canonical(file_path) \in MarkedFiles /\ merged[canonical(file_path)] >= 1)

\* C9: when a process_directory run has returned on a root, a further run
\* on that root merges nothing, marks nothing and returns at once: store
\* and tracker stay as they were.
RerunChangesNothing ==
    [][\A root \in Roots :
          (root \in completed /\ StartDirectory(root)) =>
              /\ pc' = "idle"
              /\ report' = "all_processed"
              /\ store' = store
              /\ tracker' = tracker]_vars

\* C9 witness: a run on a root that had a completed run, with merged words
\* in the store, has reported that every file was already processed.
RerunReportedAllProcessed ==
    /\ report = "all_processed"
    /\ pc = "idle"
    /\ directory_path \in completed
    /\ store # NoRows
    /\ \A f \in Files : merged[f] <= 1

\* The run that last returned processed every file of its list that raised
\* no error: the file is marked, and merged if it has words.
OthersProcessed ==
    \A k \in DOMAIN unprocessed_files :
        LET p == unprocessed_files[k] IN
        p \notin failed =>
            /\ is_file_processed(p)
            /\ Items(content[canonical(p)]) # {} => p \in mergedRun

\* C10: a process_directory run that is not terminated from outside
\* returns, and when it has returned every file of its list other than
\* those that raised has been merged and marked.
BadFileDoesNotAbort ==
    /\ (mode = "dir") ~> (pc = "idle")
    /\ [](report = "finished" => OthersProcessed)
    /\ [][(mode = "dir" /\ pc' = "idle") => report' = "finished"]_vars

\* C10 witness: a run has returned in which one file raised and another
\* file, discovered after it, was merged and marked.
RunFinishedPastBadFile ==
    /\ report = "finished"
    /\ Len(unprocessed_files) = 2
    /\ unprocessed_files[1] \in failed
    /\ unprocessed_files[2] \in mergedRun
    /\ is_file_processed(unprocessed_files[2])

\* C11 (as claimed): a file that process_directory found missing (it was
\* enumerated as unprocessed and then disappeared) is reported and gets no
\* marker: the tracker is left as the enumeration found it.
MissingFileNotMarked ==
    directory_path # "" => \A p \in notFound : ~is_file_processed(p)

\* C12: in every reachable state every record of the store has a positive
\* count (one record per word: the store is keyed by the UNIQUE word column),
\* and no step deletes a record or lowers or resets its count.
RecordsUniqueAndMonotone ==
    /\ [](\A w \in DOMAIN store : store[w].count >= 1)
    /\ [][\A w \in DOMAIN store :
            w \in DOMAIN store' /\ store'[w].count >= store[w].count]_vars

\* C12 witness: a merge has been committed onto a record that existed with
\* the largest initial count.
MergedOntoExistingRecord ==
    \E w \in DOMAIN store : store[w].count > MaxOcc + 1 /\ cmds >= 1

Ranked(st) ==
    CHOOSE r \in Scans(DOMAIN st) :
        \A i \in 1..(Len(r) - 1) : RowBefore(st, r[i], r[i + 1])

RowWords(rows) == [k \in DOMAIN rows |-> rows[k].word]

\* C14 (as claimed): show_stats and an export without category filter,
\* given a limit, return the first `limit` records of the order count
\* descending, word ascending, whatever the scan order of the table.
RankReturnsFirstLimit ==
    (qpc \in {"stats", "export"} /\ qFilter = <<>> /\ qLimit # <<>>) =>
        RowWords(qRows) = Limit(Ranked(store), qLimit[1])

\* C15: mark_file_processed(p) raises no error and leaves p marked; applied
\* to a tracker in which p is already marked (the second application) it
\* changes neither the set of markers nor any marker's processed_at.
MarkIsIdempotent ==
    [][(lastOp'.op = "mark" /\ cmds' = cmds + 1) =>
          /\ ~lastOp'.error
          /\ lastOp'.path \in tracker'
          /\ lastOp'.path \in DOMAIN processed_at'
          /\ lastOp'.path \in tracker =>
                (tracker' = tracker /\ processed_at' = processed_at)]_vars

\* C15 witness: a path was marked a second time, after the clock advanced
\* past its first marker.
MarkedTwice ==
    /\ lastOp.op = "mark"
    /\ lastOp.repeated
    /\ processed_at[lastOp.path] < now

\* C20: a merge changes the tracker not at all, and of the store only the
\* records of the batch's words: every other word keeps its count, category
\* and timestamps, and none is created or deleted.  A mark changes the store
\* and its timestamps not at all, and of the tracker at most the marker of
\* its path.
FrameOfMergeAndMark ==
    [][/\ (lastOp'.op = "merge" /\ cmds' = cmds + 1) =>
             /\ tracker' = tracker
             /\ processed_at' = processed_at
             /\ \A w \in Words \ Items(lastOp'.batch) :
                   /\ w \in DOMAIN store' <=> w \in DOMAIN store
                   /\ w \in DOMAIN store =>
                         (store'[w] = store[w] /\ stamps'[w] = stamps[w])
       /\ (lastOp'.op = "mark" /\ cmds' = cmds + 1) =>
             /\ store' = store
             /\ stamps' = stamps
             /\ tracker' \ {lastOp'.path} = tracker \ {lastOp'.path}
             /\ \A q \in DOMAIN processed_at \ {lastOp'.path} :
                   q \in DOMAIN processed_at' /\ processed_at'[q] = processed_at[q]]_vars

\* C20 witness: a merge updated one existing record, at a later time than
\* its creation, while the store held another word outside the batch.
MergedBesideOtherWord ==
    /\ lastOp.op = "merge"
    /\ \E w \in Items(lastOp.batch) : stamps[w].updated_at > stamps[w].created_at
    /\ DOMAIN store \ Items(lastOp.batch) # {}
    /\ tracker # {}

\* The position of an encoding in the fallback list.
FallbackIndex(enc) == CHOOSE k \in DOMAIN FallbackList : FallbackList[k] = enc

\* C16 (as claimed): bytes rated below the threshold that decode under the
\* third fallback encoding are resolved to that third fallback.
ThirdFallbackChosen ==
    (epc = "done" /\ ~eRaises /\ eConf < Threshold /\ FallbackList[3] \in eDecodes)
        => eResult = FallbackList[3]

\* C16 (amended): detect_encoding always returns a name; at confidence 0.7
\* or more it returns the detector's guess; below it, the first encoding of
\* the fallback list that decodes the bytes, so bytes that decode under the
\* third fallback are resolved to the first or the second fallback, never
\* rejected and never resolved to the third.
FirstDecodingFallbackChosen ==
    epc = "done" =>
        /\ eResult \in Range(FallbackList) \cup (Guesses \ {"None"})
        /\ (~eRaises /\ eConf >= Threshold) => eResult = eGuess
        /\ (~eRaises /\ eConf < Threshold) =>
              /\ eResult \in eDecodes
              /\ \A k \in 1..(FallbackIndex(eResult) - 1) : FallbackList[k] \notin eDecodes
        /\ (~eRaises /\ eConf < Threshold /\ FallbackList[3] \in eDecodes) =>
              eResult \in {FallbackList[1], FallbackList[2]}

\* C16 witness: bytes rated below the threshold that decode under the third
\* fallback and not under the first were resolved to the second.
ResolvedToSecondFallback ==
    /\ epc = "done" /\ ~eRaises /\ eConf < Threshold
    /\ FallbackList[3] \in eDecodes /\ FallbackList[1] \notin eDecodes
    /\ eResult = FallbackList[2]

\* A percentage sum <<numerator, denominator>> is 100%, or less.
IsHundred(pct) == pct[1] = 100 * pct[2]
BelowHundred(pct) == pct[1] < 100 * pct[2]

\* The records whose category contains the filter of the last export.
MatchingWords == {w \in DOMAIN store : Like(qFilter, TagChars(store[w].pos_tag))}

\* An export whose filter matches a strict subset of the records reports an
\* overall-percentage sum below 100%.
FilteredBelowHundred ==
    (qpc = "export" /\ qFilter # <<>> /\ MatchingWords # DOMAIN store) =>
        BelowHundred(qSums.all_percentage)

\* A zero denominator gives a zero percentage sum: the empty store, and a
\* filter that matches no record.
ZeroDenominatorGivesZero ==
    /\ (qpc = "export" /\ store = NoRows) =>
          (qSums.filtered_percentage[1] = 0 /\ qSums.all_percentage[1] = 0)
    /\ (qpc = "export" /\ qFilter # <<>> /\ MatchingWords = {}) =>
          qSums.filtered_percentage[1] = 0

\* C17 (as claimed): on a non-empty store the category-percentages of the
\* rows of an unfiltered export sum to 100%; a strict-subset filter gives an
\* overall sum below 100%; a zero denominator gives zero.
PercentagesSumToHundred ==
    /\ (qpc = "export" /\ qFilter = <<>> /\ store # NoRows) =>
          IsHundred(qSums.filtered_percentage)
    /\ FilteredBelowHundred
    /\ ZeroDenominatorGivesZero

\* C17 (amended): on a non-empty store the category-percentages of an
\* unfiltered export sum to 100% when the row limit cuts off no record (no
\* limit, limit 0, or a limit of at least the number of records) and to less
\* than 100% when it does; a strict-subset filter gives an overall sum below
\* 100%; a zero denominator gives zero.
PercentagesSumToHundredUnlessCut ==
    /\ (qpc = "export" /\ qFilter = <<>> /\ store # NoRows) =>
          IF Truthy(qLimit) /\ qLimit[1] < Cardinality(DOMAIN store)
          THEN BelowHundred(qSums.filtered_percentage)
          ELSE IsHundred(qSums.filtered_percentage)
    /\ FilteredBelowHundred
    /\ ZeroDenominatorGivesZero

\* C17 witness: an unfiltered export of a store of several records under a
\* row limit that cuts none of them off.
ExportedAllUnderLimit ==
    /\ qpc = "export" /\ qFilter = <<>> /\ Truthy(qLimit)
    /\ Cardinality(DOMAIN store) > 1
    /\ Len(qRows) = Cardinality(DOMAIN store)
    /\ IsHundred(qSums.filtered_percentage)

\* C18: search_word for a word that has no record reports not-found and
\* changes neither the store nor the tracker, in every store state.
UnknownLookupChangesNothing ==
    [][(qpc = "ready" /\ qpc' = "search" /\ ToLower(qWord') \notin DOMAIN store) =>
          /\ qFound' = "not_found"
          /\ store' = store
          /\ tracker' = tracker]_vars

\* C18 witness: a word was looked up in the empty store.
LookedUpInEmptyStore ==
    qpc = "search" /\ store = NoRows /\ qFound = "not_found"

\* C19 (as claimed): when process_directory has returned, having skipped or
\* processed every file, the words database it ran against holds the tokens
\* of every file: no file is skipped on behalf of another database.
SkippedOnlyIfMergedHere ==
    report \in {"all_processed", "finished"} =>
        \A w \in Words : Count(store, w) >= Occurrences(w, Files)

====
